---- MODULE Spec2Model ----
(***************************************************************************)
(* State-machine model of the company-review REST API                      *)
(* (src/src/routes/*.ts, src/src/models/*.ts, src/unnamed/part_00x,         *)
(* src/src/server.ts).                                                      *)
(*                                                                         *)
(* Every request handler is cut at its awaits on the document store: one   *)
(* action per store operation, so that concurrent requests and the         *)
(* fire-and-forget rating recomputation interleave exactly where the       *)
(* event loop lets them.                                                   *)
(*                                                                         *)
(* Specifications                                                          *)
(*   Spec      review requests and company deletes, arbitrarily interleaved*)
(*   SeqSpec   the same requests, one at a time: a request is accepted     *)
(*             only when no request and no recomputation is in flight      *)
(*   FaultSpec requests one at a time, with store failures inside the      *)
(*             rating recomputation, under either bootstrap of server.ts   *)
(*   ListSpec  company writes and GET /api/companies                       *)
(*   AuthSpec  POST /api/auth/register and POST /api/auth/login            *)
(*   BootSpec  startup of the server under either bootstrap of server.ts   *)
(*   ImportSpec the import utility run twice over one listing              *)
(***************************************************************************)
EXTENDS Integers, Sequences, FiniteSets, Bags, TLC

VARIABLES
    users,          \* User collection: sequence of user documents, _id = index
    givenPassword,  \* history: the plaintext each user registered with
    companies,      \* Company collection: _id -> document
    reviews,        \* Review collection: _id -> document
    nextCompanyId,  \* next fresh Company _id
    nextReviewId,   \* next fresh Review _id
    nameUnique,     \* which Company schema is deployed: unique name index or not
    inflight,       \* bag of requests suspended at an await
    tasks,          \* bag of running getAverageRating calls
    resp,           \* the response the step just taken sent, NoResponse if none
    bootstrap,      \* which server.ts bootstrap is deployed
    up,             \* the node process is running
    boot,           \* startup of the server: listening, store connection, retry timer
    imp             \* the import utility: its run, the listing it reads

vars == <<users, givenPassword, companies, reviews, nextCompanyId, nextReviewId,
          nameUnique, inflight, tasks, resp, bootstrap, up, boot, imp>>

----------------------------------------------------------------------------
(* Bounds of the model *)

MaxUsers == 2
MaxCompanyIds == 2
MaxReviewIds == 2
MaxInflight == 2
MaxTasks == 2
MaxAttempts == 3
MaxPages == 2
MaxRuns == 2

(* Program constants *)

MinRating == 1
MaxRating == 5
MinPasswordLength == 6
DefaultPage == 1
DefaultLimit == 25
RetryDelay == 5

----------------------------------------------------------------------------
(* Input domains *)

Emails == {"", "nope", "a@x.io", "b@x.io", "c@x.io"}
Passwords == {"", "short", "secret1", "secret2"}
RoleInputs == {"", "admin", "root"}       \* "": the body carries no role
UserNames == {"", "Ann"}
Salts == {"s1", "s2"}
RatingInputs == {-1, 0, 1, 5, 6}      \* -1: the body carries no rating
CompanyNames == {"", "n1", "n2"}      \* "": the body carries no name
Digits == {"0", "1", "2", "3", "4", "5", "6", "7", "8", "9"}
PageInputs == {<<>>, <<"x">>, <<"0">>, <<"1">>, <<"2">>, <<"3">>, <<"-", "1">>, <<"2", "x">>}
LimitInputs == {<<>>, <<"x">>, <<"0">>, <<"1">>, <<"2">>}

----------------------------------------------------------------------------
(* Small helpers *)

RECURSIVE GCD(_, _)
GCD(a, b) == IF b = 0 THEN a ELSE GCD(b, a % b)

Min(a, b) == IF a < b THEN a ELSE b

BagSize(B) == BagCardinality(B)

NoAverage == <<>>

----------------------------------------------------------------------------
(* Responses.  One record shape for every route; the fields a route does   *)
(* not send keep their defaults.                                           *)

NoToken == [id |-> 0, role |-> ""]

\* `authed`: protect attached a user to the request this answers; `n`: the
\* count of a listing, and for a company delete the reviews its cascade removed
Response(op, status, authed) ==
    [op |-> op, status |-> status, authed |-> authed, n |-> 0, token |-> NoToken,
     page |-> <<>>, limit |-> <<>>, next |-> FALSE, prev |-> FALSE,
     data |-> <<>>]

NoResponse == Response("", 0, FALSE)

\* the process runs and the response of the previous step has left the socket
Serving == up /\ resp = NoResponse

\* res.json(): the response is written out
SendResponse ==
    /\ up /\ resp # NoResponse
    /\ resp' = NoResponse
    /\ UNCHANGED <<users, givenPassword, companies, reviews, nextCompanyId,
                   nextReviewId, nameUnique, inflight, tasks, bootstrap, up,
                   boot, imp>>

----------------------------------------------------------------------------
(* User model (src/src/models/User.ts)                                     *)

\* bcrypt.hash: a salted one-way digest, the salt kept in the result
Hash(password, salt) == [salt |-> salt, digest |-> <<salt, password>>]

\* the email match pattern of the schema, on the emails the model enumerates
EmailWellFormed(email) == email \in {"a@x.io", "b@x.io", "c@x.io"}

\* schema validators run by User.create
UserValid(doc) ==
    /\ doc.name # ""
    /\ doc.email # "" /\ EmailWellFormed(doc.email)
    /\ doc.password # "" /\ Len(doc.password) >= MinPasswordLength
    /\ doc.role \in {"user", "admin"}

\* pre('save'): when the password is unmodified next() is called, but without a
\* return, so the hashing below it runs on either path
UserPreSave(doc, modified, salt) ==
    [doc EXCEPT !.password = Hash(doc.password, salt)]

\* a comparison that accepts every entered password
MatchPasswordAny(user, enteredPassword) == user.password.salt \in Salts

\* bcrypt.compare: re-hash the entered password with the stored salt
MatchPassword(user, enteredPassword) ==
    Hash(enteredPassword, user.password.salt) = user.password

GetSignedJwtToken(id, user) == [id |-> id, role |-> user.role]

EmailTaken(email) == \E i \in DOMAIN users : users[i].email = email

FindUserByEmail(email) == CHOOSE i \in DOMAIN users : users[i].email = email

----------------------------------------------------------------------------
(* Auth routes (second half of src/src/routes/companies.ts)                *)

SendTokenResponse(op, id, user, statusCode) ==
    [Response(op, statusCode, FALSE) EXCEPT !.token = GetSignedJwtToken(id, user)]

StoreUnchanged ==
    UNCHANGED <<companies, reviews, nextCompanyId, nextReviewId, nameUnique>>

\* POST /api/auth/register
Register(name, email, password, role, salt) ==
    LET doc == [name |-> name, email |-> email, password |-> password,
                role |-> IF role = "" THEN "user" ELSE role]
        saved == UserPreSave(doc, TRUE, salt)
        id == Len(users) + 1
    IN /\ Serving
       /\ IF UserValid(doc) /\ ~EmailTaken(email)
          THEN /\ Len(users) < MaxUsers
               /\ users' = Append(users, saved)
               /\ givenPassword' = Append(givenPassword, password)
               /\ resp' = SendTokenResponse("register", id, saved, 201)
          ELSE /\ resp' = Response("register", 500, FALSE)
               /\ UNCHANGED <<users, givenPassword>>
       /\ StoreUnchanged
       /\ UNCHANGED <<inflight, tasks, bootstrap, up,
                   boot, imp>>

\* POST /api/auth/login
Login(email, password) ==
    /\ Serving
    /\ resp' = IF email = "" \/ password = ""
               THEN Response("login", 400, FALSE)
               ELSE IF ~EmailTaken(email)
               THEN Response("login", 401, FALSE)
               ELSE LET id == FindUserByEmail(email)
                    IN IF ~MatchPassword(users[id], password)
                       THEN Response("login", 401, FALSE)
                       ELSE SendTokenResponse("login", id, users[id], 200)
    /\ StoreUnchanged
    /\ UNCHANGED <<users, givenPassword, inflight, tasks, bootstrap, up,
                   boot, imp>>

\* the server once it listens and the first connection attempt has succeeded
Booted ==
    [pc |-> "run", listening |-> TRUE, attempting |-> 0, timers |-> 0,
     elapsed |-> 0, connected |-> TRUE, attempts |-> 1, reachable |-> TRUE]

\* the import utility not started, no listing
ImportIdle ==
    [pc |-> "idle", run |-> 0, listing |-> <<>>, currentPage |-> 0,
     hasNextPage |-> FALSE, meta |-> FALSE, items |-> <<>>, open |-> FALSE,
     asked |-> <<>>, skipped |-> {}, ended |-> ""]

EmptyStore ==
    /\ companies = <<>>
    /\ reviews = <<>>
    /\ nextCompanyId = 1
    /\ nextReviewId = 1
    /\ inflight = EmptyBag
    /\ tasks = EmptyBag
    /\ resp = NoResponse
    /\ up = TRUE
    /\ boot = Booted
    /\ imp = ImportIdle

AuthInit ==
    /\ users = <<>>
    /\ givenPassword = <<>>
    /\ nameUnique = FALSE
    /\ bootstrap = "plain"
    /\ EmptyStore

AuthRegister ==
    \E name \in UserNames, email \in Emails, password \in Passwords,
       role \in RoleInputs, salt \in Salts :
        Register(name, email, password, role, salt)

AuthLogin == \E email \in Emails, password \in Passwords : Login(email, password)

AuthNext == AuthRegister \/ AuthLogin \/ SendResponse

AuthSpec == AuthInit /\ [][AuthNext]_vars

----------------------------------------------------------------------------
(* Auth guard (middleware/auth: protect, authorize)                        *)

NoCred == [kind |-> "none", token |-> NoToken]
BadCred == [kind |-> "bad", token |-> NoToken]
Jwt(id) == [kind |-> "jwt", token |-> GetSignedJwtToken(id, users[id])]
Creds == {NoCred, BadCred} \cup {Jwt(i) : i \in DOMAIN users}

\* protect: the id of the user attached to the request, 0 when it answers 401
Protect(cred) ==
    IF cred.kind = "jwt" /\ cred.token.id \in DOMAIN users THEN cred.token.id ELSE 0

\* authorize(...roles): FALSE when it answers 403
Authorize(roles, user) == users[user].role \in roles

----------------------------------------------------------------------------
(* Requests suspended at an await: one record shape for every route        *)

Req(op, pc, id) ==
    [op |-> op, pc |-> pc, id |-> id,
     rating |-> -1, comment |-> FALSE, companyId |-> 0, authorId |-> 0,
     name |-> "", page |-> 0, limit |-> 0, rawPage |-> <<>>, rawLimit |-> <<>>,
     n |-> 0]

Suspended == BagToSet(inflight)
Suspend(r) == inflight' = inflight (+) SetToBag({r})
Resume(r, r2) == inflight' = (inflight (-) SetToBag({r})) (+) SetToBag({r2})
Finish(r) == inflight' = inflight (-) SetToBag({r})

CanSuspend == BagSize(inflight) < MaxInflight

Remove(f, id) == [i \in DOMAIN f \ {id} |-> f[i]]

----------------------------------------------------------------------------
(* Review model (src/src/models/Review.ts)                                 *)

ReviewBody(rating, comment, companyId, authorId) ==
    [rating |-> rating, comment |-> comment, companyId |-> companyId,
     authorId |-> authorId]

ReviewsOf(companyId) == {i \in DOMAIN reviews : reviews[i].companyId = companyId}

\* schema validators on create: rating required, min 1, max 5; comment required
ReviewValid(r) ==
    /\ r.rating >= MinRating /\ r.rating <= MaxRating
    /\ r.comment

\* validators run by findByIdAndUpdate with runValidators, on the paths it sets
ReviewUpdateValid(r) ==
    r.rating # -1 => (r.rating >= MinRating /\ r.rating <= MaxRating)

\* a collection without the unique index
ReviewPairTakenNoIndex(companyId, authorId, self) == FALSE

\* the unique index on {companyId, authorId}: does a document other than `self`
\* already hold the pair
ReviewPairTaken(companyId, authorId, self) ==
    \E i \in DOMAIN reviews \ {self} :
        reviews[i].companyId = companyId /\ reviews[i].authorId = authorId

RECURSIVE SumRatings(_)
SumRatings(ids) ==
    IF ids = {} THEN 0
    ELSE LET i == CHOOSE x \in ids : TRUE
         IN reviews[i].rating + SumRatings(ids \ {i})

\* a mean as the fraction sum/count in lowest terms
Fraction(sum, count) ==
    LET g == GCD(sum, count) IN <<sum \div g, count \div g>>

\* the $match / $group / $avg pipeline: obj[0].averageRating, NoAverage when
\* the pipeline returns no group
Aggregate(companyId) ==
    LET ids == ReviewsOf(companyId)
    IN IF ids = {} THEN NoAverage
       ELSE Fraction(SumRatings(ids), Cardinality(ids))

Task(companyId) == [companyId |-> companyId, pc |-> "aggregate", avg |-> NoAverage]

\* a hook calling getAverageRating without awaiting it
SpawnGetAverageRating(companyId) == tasks' = tasks (+) SetToBag({Task(companyId)})

CanSpawn == BagSize(tasks) < MaxTasks

\* getAverageRating, first await: the aggregate query
GetAverageRatingAggregate(t) ==
    /\ Serving
    /\ t \in BagToSet(tasks) /\ t.pc = "aggregate"
    /\ tasks' = (tasks (-) SetToBag({t}))
                (+) SetToBag({[t EXCEPT !.pc = "update", !.avg = Aggregate(t.companyId)]})
    /\ resp' = NoResponse
    /\ UNCHANGED <<users, givenPassword, companies, reviews, nextCompanyId,
                   nextReviewId, nameUnique, inflight, bootstrap, up,
                   boot, imp>>

\* What findByIdAndUpdate does with { averageRating: undefined }: mongoose 5
\* sends it as null ("unset"), mongoose 6 and later strip the key ("keep").
UndefinedUpdateOutcomes == {"unset", "keep"}

\* getAverageRating, second await: Company.findByIdAndUpdate
GetAverageRatingUpdate(t) ==
    /\ Serving
    /\ t \in BagToSet(tasks) /\ t.pc = "update"
    /\ tasks' = tasks (-) SetToBag({t})
    /\ IF t.companyId \notin DOMAIN companies
       THEN UNCHANGED companies
       ELSE IF t.avg # NoAverage
       THEN companies' = [companies EXCEPT ![t.companyId].averageRating = t.avg]
       ELSE \E outcome \in UndefinedUpdateOutcomes :
                companies' = IF outcome = "unset"
                             THEN [companies EXCEPT ![t.companyId].averageRating = NoAverage]
                             ELSE companies
    /\ resp' = NoResponse
    /\ UNCHANGED <<users, givenPassword, reviews, nextCompanyId, nextReviewId,
                   nameUnique, inflight, bootstrap, up,
                   boot, imp>>

\* process.on('unhandledRejection', ...) is installed by the first bootstrap of
\* server.ts only; without it node ends the process on an unhandled rejection
HandlesRejections == bootstrap = "plain"

\* the aggregate query rejects: the await is outside the try, so the promise of
\* getAverageRating, which no hook awaits, rejects unhandled
GetAverageRatingAggregateFails(t) ==
    /\ Serving
    /\ t \in BagToSet(tasks) /\ t.pc = "aggregate"
    /\ tasks' = tasks (-) SetToBag({t})
    /\ up' = HandlesRejections
    /\ resp' = NoResponse
    /\ UNCHANGED <<users, givenPassword, companies, reviews, nextCompanyId,
                   nextReviewId, nameUnique, inflight, bootstrap, boot, imp>>

\* the company update rejects: caught and logged
GetAverageRatingUpdateFails(t) ==
    /\ Serving
    /\ t \in BagToSet(tasks) /\ t.pc = "update"
    /\ tasks' = tasks (-) SetToBag({t})
    /\ resp' = NoResponse
    /\ UNCHANGED <<users, givenPassword, companies, reviews, nextCompanyId,
                   nextReviewId, nameUnique, inflight, bootstrap, up,
                   boot, imp>>

----------------------------------------------------------------------------
(* Review routes (src/src/routes/reviews.ts)                               *)

\* an ownership check that lets every signed-in caller through
MayMutateAnyReview(review, user) == user \in DOMAIN users

\* "Make sure review belongs to user or user is admin"
MayMutateReview(review, user) ==
    review.authorId = user \/ users[user].role = "admin"

PendingCreates ==
    BagCardinality([r \in {x \in Suspended : x.op = "createReview"} |-> inflight[r]])

\* GET /api/reviews/:id
GetReview(id) ==
    /\ Serving
    /\ resp' = IF id \in DOMAIN reviews THEN Response("getReview", 200, FALSE)
               ELSE Response("getReview", 404, FALSE)
    /\ UNCHANGED <<users, givenPassword, companies, reviews, nextCompanyId,
                   nextReviewId, nameUnique, inflight, tasks, bootstrap, up,
                   boot, imp>>

\* POST /api/companies/:companyId/reviews, up to the await on Review.create
ReviewCreateBegin(cred, companyId, body) ==
    LET user == Protect(cred)
        doc == [body EXCEPT !.companyId = companyId, !.authorId = user]
    IN /\ Serving
       /\ IF user = 0
          THEN resp' = Response("createReview", 401, FALSE) /\ UNCHANGED inflight
          ELSE IF companyId \notin DOMAIN companies
          THEN resp' = Response("createReview", 404, TRUE) /\ UNCHANGED inflight
          ELSE /\ CanSuspend
               /\ nextReviewId + PendingCreates <= MaxReviewIds
               /\ Suspend([Req("createReview", "create", 0) EXCEPT
                             !.rating = doc.rating, !.comment = doc.comment,
                             !.companyId = doc.companyId, !.authorId = doc.authorId])
               /\ resp' = NoResponse
       /\ UNCHANGED <<users, givenPassword, companies, reviews, nextCompanyId,
                      nextReviewId, nameUnique, tasks, bootstrap, up,
                   boot, imp>>

\* Review.create: validate, insert under the unique index, post('save') hook
ReviewCreateSave(r) ==
    /\ Serving
    /\ r \in Suspended /\ r.op = "createReview" /\ r.pc = "create"
    /\ Finish(r)
    /\ IF ReviewValid(r) /\ ~ReviewPairTaken(r.companyId, r.authorId, 0)
       THEN /\ CanSpawn
            /\ reviews' = reviews @@ (nextReviewId :>
                   [rating |-> r.rating, companyId |-> r.companyId,
                    authorId |-> r.authorId])
            /\ nextReviewId' = nextReviewId + 1
            /\ SpawnGetAverageRating(r.companyId)
            /\ resp' = Response("createReview", 201, TRUE)
       ELSE /\ resp' = Response("createReview", 500, TRUE)
            /\ UNCHANGED <<reviews, nextReviewId, tasks>>
    /\ UNCHANGED <<users, givenPassword, companies, nextCompanyId, nameUnique,
                   bootstrap, up,
                   boot, imp>>

\* PUT /api/reviews/:id, up to the await on findByIdAndUpdate
ReviewUpdateBegin(cred, id, body) ==
    LET user == Protect(cred)
    IN /\ Serving
       /\ IF user = 0
          THEN resp' = Response("updateReview", 401, FALSE) /\ UNCHANGED inflight
          ELSE IF id \notin DOMAIN reviews
          THEN resp' = Response("updateReview", 404, TRUE) /\ UNCHANGED inflight
          ELSE IF ~MayMutateReview(reviews[id], user)
          THEN resp' = Response("updateReview", 401, TRUE) /\ UNCHANGED inflight
          ELSE /\ CanSuspend
               /\ Suspend([Req("updateReview", "update", id) EXCEPT
                             !.rating = body.rating, !.companyId = body.companyId,
                             !.authorId = body.authorId])
               /\ resp' = NoResponse
       /\ UNCHANGED <<users, givenPassword, companies, reviews, nextCompanyId,
                      nextReviewId, nameUnique, tasks, bootstrap, up,
                   boot, imp>>

\* Review.findByIdAndUpdate(id, req.body, {new, runValidators}): no save hook runs
ReviewUpdateApply(r) ==
    /\ Serving
    /\ r \in Suspended /\ r.op = "updateReview" /\ r.pc = "update"
    /\ Finish(r)
    /\ IF ~ReviewUpdateValid(r)
       THEN resp' = Response("updateReview", 500, TRUE) /\ UNCHANGED reviews
       ELSE IF r.id \notin DOMAIN reviews
       THEN resp' = Response("updateReview", 200, TRUE) /\ UNCHANGED reviews
       ELSE LET old == reviews[r.id]
                new == [rating |-> IF r.rating = -1 THEN old.rating ELSE r.rating,
                        companyId |-> IF r.companyId = 0 THEN old.companyId
                                      ELSE r.companyId,
                        authorId |-> IF r.authorId = 0 THEN old.authorId
                                     ELSE r.authorId]
            IN IF ReviewPairTaken(new.companyId, new.authorId, r.id)
               THEN resp' = Response("updateReview", 500, TRUE) /\ UNCHANGED reviews
               ELSE /\ reviews' = [reviews EXCEPT ![r.id] = new]
                    /\ resp' = Response("updateReview", 200, TRUE)
    /\ UNCHANGED <<users, givenPassword, companies, nextCompanyId, nextReviewId,
                   nameUnique, tasks, bootstrap, up,
                   boot, imp>>

\* DELETE /api/reviews/:id, up to the await on review.deleteOne(): the
\* pre('deleteOne') hook has called getAverageRating, the delete is not yet done
ReviewDeleteBegin(cred, id) ==
    LET user == Protect(cred)
    IN /\ Serving
       /\ IF user = 0
          THEN resp' = Response("deleteReview", 401, FALSE) /\ UNCHANGED <<inflight, tasks>>
          ELSE IF id \notin DOMAIN reviews
          THEN resp' = Response("deleteReview", 404, TRUE) /\ UNCHANGED <<inflight, tasks>>
          ELSE IF ~MayMutateReview(reviews[id], user)
          THEN resp' = Response("deleteReview", 401, TRUE) /\ UNCHANGED <<inflight, tasks>>
          ELSE /\ CanSuspend /\ CanSpawn
               /\ SpawnGetAverageRating(reviews[id].companyId)
               /\ Suspend(Req("deleteReview", "remove", id))
               /\ resp' = NoResponse
       /\ UNCHANGED <<users, givenPassword, companies, reviews, nextCompanyId,
                      nextReviewId, nameUnique, bootstrap, up,
                   boot, imp>>

\* review.deleteOne(): the document is removed from the collection
ReviewDeleteRemove(r) ==
    /\ Serving
    /\ r \in Suspended /\ r.op = "deleteReview" /\ r.pc = "remove"
    /\ Finish(r)
    /\ reviews' = Remove(reviews, r.id)
    /\ resp' = Response("deleteReview", 200, TRUE)
    /\ UNCHANGED <<users, givenPassword, companies, nextCompanyId, nextReviewId,
                   nameUnique, tasks, bootstrap, up,
                   boot, imp>>

----------------------------------------------------------------------------
(* Company model (src/unnamed/part_001, part_002) and company routes       *)
(* (first half of src/src/routes/companies.ts)                             *)

\* schema validators on create: name required
CompanyValid(body) == body.name # ""

\* the unique index on name, present in one of the two Company schemas
NameTaken(name, self) ==
    nameUnique /\ \E i \in DOMAIN companies \ {self} : companies[i].name = name

\* a route guarded by protect alone
AdminGateProtectOnly(cred) == IF Protect(cred) = 0 THEN 401 ELSE 0

\* protect, authorize('admin'): 0 when the route handler is reached
AdminGate(cred) ==
    IF Protect(cred) = 0 THEN 401
    ELSE IF ~Authorize({"admin"}, Protect(cred)) THEN 403
    ELSE 0

\* POST /api/companies
CompanyCreate(cred, body) ==
    /\ Serving
    /\ IF AdminGate(cred) # 0
       THEN /\ resp' = Response("createCompany", AdminGate(cred), Protect(cred) # 0)
            /\ UNCHANGED <<companies, nextCompanyId>>
       ELSE IF ~CompanyValid(body) \/ NameTaken(body.name, 0)
       THEN /\ resp' = Response("createCompany", 500, Protect(cred) # 0)
            /\ UNCHANGED <<companies, nextCompanyId>>
       ELSE /\ nextCompanyId <= MaxCompanyIds
            /\ companies' = companies @@ (nextCompanyId :>
                   [name |-> body.name, averageRating |-> NoAverage])
            /\ nextCompanyId' = nextCompanyId + 1
            /\ resp' = Response("createCompany", 201, Protect(cred) # 0)
    /\ UNCHANGED <<users, givenPassword, reviews, nextReviewId, nameUnique,
                   inflight, tasks, bootstrap, up,
                   boot, imp>>

\* PUT /api/companies/:id, up to the await on findByIdAndUpdate
CompanyUpdateBegin(cred, id, body) ==
    /\ Serving
    /\ IF AdminGate(cred) # 0
       THEN /\ resp' = Response("updateCompany", AdminGate(cred), Protect(cred) # 0)
            /\ UNCHANGED inflight
       ELSE IF id \notin DOMAIN companies
       THEN /\ resp' = Response("updateCompany", 404, Protect(cred) # 0)
            /\ UNCHANGED inflight
       ELSE /\ CanSuspend
            /\ Suspend([Req("updateCompany", "update", id) EXCEPT
                          !.name = body.name])
            /\ resp' = NoResponse
    /\ UNCHANGED <<users, givenPassword, companies, reviews, nextCompanyId,
                   nextReviewId, nameUnique, tasks, bootstrap, up,
                   boot, imp>>

\* Company.findByIdAndUpdate(id, req.body, {new, runValidators})
CompanyUpdateApply(r) ==
    /\ Serving
    /\ r \in Suspended /\ r.op = "updateCompany" /\ r.pc = "update"
    /\ Finish(r)
    /\ IF r.id \notin DOMAIN companies \/ r.name = ""
       THEN resp' = Response("updateCompany", 200, TRUE) /\ UNCHANGED companies
       ELSE IF NameTaken(r.name, r.id)
       THEN resp' = Response("updateCompany", 500, TRUE) /\ UNCHANGED companies
       ELSE /\ companies' = [companies EXCEPT ![r.id].name = r.name]
            /\ resp' = Response("updateCompany", 200, TRUE)
    /\ UNCHANGED <<users, givenPassword, reviews, nextCompanyId, nextReviewId,
                   nameUnique, tasks, bootstrap, up,
                   boot, imp>>

\* DELETE /api/companies/:id, up to the await inside the pre('deleteOne') hook
CompanyDeleteBegin(cred, id) ==
    /\ Serving
    /\ IF AdminGate(cred) # 0
       THEN /\ resp' = Response("deleteCompany", AdminGate(cred), Protect(cred) # 0)
            /\ UNCHANGED inflight
       ELSE IF id \notin DOMAIN companies
       THEN /\ resp' = Response("deleteCompany", 404, Protect(cred) # 0)
            /\ UNCHANGED inflight
       ELSE /\ CanSuspend
            /\ Suspend(Req("deleteCompany", "cascade", id))
            /\ resp' = NoResponse
    /\ UNCHANGED <<users, givenPassword, companies, reviews, nextCompanyId,
                   nextReviewId, nameUnique, tasks, bootstrap, up,
                   boot, imp>>

\* a company schema without the cascading hook
CascadeDeleteNothing(companyId) == reviews

\* CompanySchema.pre('deleteOne'): Review.deleteMany({companyId: this._id}),
\* a query-level delete, so no review hook runs
CascadeDeleteReviews(companyId) ==
    [i \in DOMAIN reviews \ ReviewsOf(companyId) |-> reviews[i]]

CompanyDeleteCascade(r) ==
    /\ Serving
    /\ r \in Suspended /\ r.op = "deleteCompany" /\ r.pc = "cascade"
    /\ reviews' = CascadeDeleteReviews(r.id)
    /\ Resume(r, [r EXCEPT !.pc = "remove", !.n = Cardinality(ReviewsOf(r.id))])
    /\ resp' = NoResponse
    /\ UNCHANGED <<users, givenPassword, companies, nextCompanyId, nextReviewId,
                   nameUnique, tasks, bootstrap, up,
                   boot, imp>>

\* company.deleteOne() proper, after the hook called next()
CompanyDeleteRemove(r) ==
    /\ Serving
    /\ r \in Suspended /\ r.op = "deleteCompany" /\ r.pc = "remove"
    /\ Finish(r)
    /\ companies' = Remove(companies, r.id)
    /\ resp' = [Response("deleteCompany", 200, TRUE) EXCEPT !.n = r.n]
    /\ UNCHANGED <<users, givenPassword, reviews, nextCompanyId, nextReviewId,
                   nameUnique, tasks, bootstrap, up,
                   boot, imp>>

----------------------------------------------------------------------------
(* GET /api/companies: filter, pagination                                  *)

DigitValue(ch) ==
    CASE ch = "0" -> 0 [] ch = "1" -> 1 [] ch = "2" -> 2 [] ch = "3" -> 3
      [] ch = "4" -> 4 [] ch = "5" -> 5 [] ch = "6" -> 6 [] ch = "7" -> 7
      [] ch = "8" -> 8 [] ch = "9" -> 9

RECURSIVE LeadingDigits(_)
LeadingDigits(s) ==
    IF s = <<>> \/ Head(s) \notin Digits THEN <<>>
    ELSE <<Head(s)>> \o LeadingDigits(Tail(s))

RECURSIVE DecimalValue(_)
DecimalValue(ds) ==
    IF ds = <<>> THEN 0
    ELSE 10 * DecimalValue(SubSeq(ds, 1, Len(ds) - 1)) + DigitValue(ds[Len(ds)])

\* parseInt(s, 10) of a query value: <<>> for NaN, <<n>> otherwise; an absent
\* parameter (undefined) is the empty text and gives NaN
ParseInt(s) ==
    LET neg == s # <<>> /\ Head(s) = "-"
        ds == LeadingDigits(IF neg THEN Tail(s) ELSE s)
    IN IF ds = <<>> THEN <<>>
       ELSE <<IF neg THEN 0 - DecimalValue(ds) ELSE DecimalValue(ds)>>

\* `x || d` on a number: NaN and 0 are falsy
OrDefault(v, d) == IF v = <<>> \/ v[1] = 0 THEN d ELSE v[1]

PageOf(rawPage) == OrDefault(ParseInt(rawPage), DefaultPage)
LimitOf(rawLimit) == OrDefault(ParseInt(rawLimit), DefaultLimit)

\* Company.find(filter): the filter the model enumerates is {name: <name>}
Matches(filter) ==
    {i \in DOMAIN companies : filter = "" \/ companies[i].name = filter}

\* sort('-createdAt'): newest first, _ids being handed out in creation order
RECURSIVE NewestFirst(_)
NewestFirst(ids) ==
    IF ids = {} THEN <<>>
    ELSE LET m == CHOOSE x \in ids : \A y \in ids : y <= x
         IN <<m>> \o NewestFirst(ids \ {m})

\* skip(startIndex).limit(limit)
Window(seq, startIndex, limit) ==
    SubSeq(seq, startIndex + 1, Min(Len(seq), startIndex + limit))

\* a next link offered also when the page ends exactly at the total
HasNextInclusive(endIndex, total) == endIndex <= total

HasNext(endIndex, total) == endIndex < total
HasPrev(startIndex) == startIndex > 0

\* up to the await on Company.countDocuments()
ListCompaniesBegin(rawPage, rawLimit, filter) ==
    /\ Serving
    /\ CanSuspend
    /\ Suspend([Req("listCompanies", "query", 0) EXCEPT
                  !.name = filter, !.page = PageOf(rawPage),
                  !.limit = LimitOf(rawLimit), !.rawPage = rawPage,
                  !.rawLimit = rawLimit, !.n = Cardinality(DOMAIN companies)])
    /\ resp' = NoResponse
    /\ UNCHANGED <<users, givenPassword, companies, reviews, nextCompanyId,
                   nextReviewId, nameUnique, tasks, bootstrap, up,
                   boot, imp>>

\* the await on the query, and the response; a negative skip is refused by the
\* store and surfaces as 500
ListCompaniesQuery(r) ==
    LET startIndex == (r.page - 1) * r.limit
        endIndex == r.page * r.limit
        total == r.n
        found == Window(NewestFirst(Matches(r.name)), startIndex, r.limit)
    IN /\ Serving
       /\ r \in Suspended /\ r.op = "listCompanies" /\ r.pc = "query"
       /\ Finish(r)
       /\ resp' = IF startIndex < 0
                  THEN [Response("listCompanies", 500, FALSE) EXCEPT
                          !.page = r.rawPage, !.limit = r.rawLimit]
                  ELSE [Response("listCompanies", 200, FALSE) EXCEPT
                          !.n = Len(found), !.data = found,
                          !.page = r.rawPage, !.limit = r.rawLimit,
                          !.next = HasNext(endIndex, total),
                          !.prev = HasPrev(startIndex)]
       /\ UNCHANGED <<users, givenPassword, companies, reviews, nextCompanyId,
                      nextReviewId, nameUnique, tasks, bootstrap, up,
                   boot, imp>>

----------------------------------------------------------------------------
(* Requests the model issues                                               *)

CompanyIdInputs == 1..MaxCompanyIds
ReviewIdInputs == 1..MaxReviewIds

\* bodies of POST .../reviews: valid ones, ones that forge companyId/authorId,
\* and ones a validator rejects
ReviewCreateBodies ==
    {ReviewBody(1, TRUE, 0, 0), ReviewBody(5, TRUE, 0, 0),
     ReviewBody(5, TRUE, 2, 1), ReviewBody(-1, TRUE, 0, 0),
     ReviewBody(6, TRUE, 0, 0), ReviewBody(5, FALSE, 0, 0)}

\* bodies of PUT /api/reviews/:id: a new rating, a new companyId, a new
\* authorId, an out-of-range rating, nothing
ReviewUpdateBodies ==
    {ReviewBody(1, FALSE, 0, 0), ReviewBody(5, FALSE, 0, 0),
     ReviewBody(6, FALSE, 0, 0), ReviewBody(-1, FALSE, 0, 0)}
    \cup {ReviewBody(-1, FALSE, c, 0) : c \in CompanyIdInputs}
    \cup {ReviewBody(-1, FALSE, 0, a) : a \in DOMAIN users}

CompanyBodies(names) == {[name |-> n] : n \in names}

\* a request that protect answers itself is issued with one body and one
\* target: neither is read
ForCred(cred, inputs) ==
    IF Protect(cred) = 0 THEN {CHOOSE b \in inputs : TRUE} ELSE inputs

\* likewise a request that protect or authorize('admin') answers
ForAdmin(cred, inputs) ==
    IF AdminGate(cred) # 0 THEN {CHOOSE b \in inputs : TRUE} ELSE inputs

GetReviewAny == \E id \in ReviewIdInputs : GetReview(id)

ReviewCreateAny(creds, bodies) ==
    \E cred \in creds : \E c \in ForCred(cred, CompanyIdInputs) :
        \E body \in ForCred(cred, bodies) : ReviewCreateBegin(cred, c, body)

ReviewUpdateAny(creds, bodies) ==
    \E cred \in creds : \E id \in ForCred(cred, ReviewIdInputs) :
        \E body \in ForCred(cred, bodies) : ReviewUpdateBegin(cred, id, body)

ReviewDeleteAny(creds) ==
    \E cred \in creds : \E id \in ForCred(cred, ReviewIdInputs) :
        ReviewDeleteBegin(cred, id)

CompanyCreateAny(creds, names) ==
    \E cred \in creds : \E body \in ForAdmin(cred, CompanyBodies(names)) :
        CompanyCreate(cred, body)

CompanyUpdateAny(creds, names) ==
    \E cred \in creds : \E id \in ForAdmin(cred, CompanyIdInputs) :
        \E body \in ForAdmin(cred, CompanyBodies(names)) :
            CompanyUpdateBegin(cred, id, body)

CompanyDeleteAny(creds) ==
    \E cred \in creds : \E id \in ForAdmin(cred, CompanyIdInputs) :
        CompanyDeleteBegin(cred, id)

ListCompaniesAny ==
    \E rawPage \in PageInputs, rawLimit \in LimitInputs, filter \in {"", "n1"} :
        ListCompaniesBegin(rawPage, rawLimit, filter)

\* the steps that resume a suspended request
ReviewCreateStep == \E r \in Suspended : ReviewCreateSave(r)
ReviewUpdateStep == \E r \in Suspended : ReviewUpdateApply(r)
ReviewDeleteStep == \E r \in Suspended : ReviewDeleteRemove(r)
CompanyUpdateStep == \E r \in Suspended : CompanyUpdateApply(r)
CompanyCascadeStep == \E r \in Suspended : CompanyDeleteCascade(r)
CompanyRemoveStep == \E r \in Suspended : CompanyDeleteRemove(r)
ListCompaniesStep == \E r \in Suspended : ListCompaniesQuery(r)
AggregateStep == \E t \in BagToSet(tasks) : GetAverageRatingAggregate(t)
UpdateStep == \E t \in BagToSet(tasks) : GetAverageRatingUpdate(t)

Quiescent == inflight = EmptyBag /\ tasks = EmptyBag

----------------------------------------------------------------------------
(* Specifications                                                          *)

\* three users registered earlier: an admin and two plain users
SeedUsers ==
    <<[name |-> "Ann", email |-> "a@x.io", password |-> Hash("secret1", "s1"),
       role |-> "admin"],
      [name |-> "Ann", email |-> "b@x.io", password |-> Hash("secret1", "s2"),
       role |-> "user"],
      [name |-> "Ann", email |-> "c@x.io", password |-> Hash("secret2", "s1"),
       role |-> "user"]>>

Seeded ==
    /\ users = SeedUsers
    /\ givenPassword = <<"secret1", "secret1", "secret2">>
    /\ EmptyStore

\* Review requests read no company name: one name and the schema without the
\* unique index admit every interleaving of company and review documents.
ApiNames == {"", "n1"}

\* the store the interleaved specification starts from: one company, created
\* earlier by the admin
OneCompany ==
    /\ users = SeedUsers
    /\ givenPassword = <<"secret1", "secret1", "secret2">>
    /\ companies = (1 :> [name |-> "n1", averageRating |-> NoAverage])
    /\ reviews = <<>>
    /\ nextCompanyId = 2
    /\ nextReviewId = 1
    /\ inflight = EmptyBag
    /\ tasks = EmptyBag
    /\ resp = NoResponse
    /\ up = TRUE
    /\ boot = Booted
    /\ imp = ImportIdle

Init ==
    /\ OneCompany
    /\ nameUnique = FALSE
    /\ bootstrap = "plain"

SeqInit ==
    /\ Seeded
    /\ nameUnique = FALSE
    /\ bootstrap = "plain"

\* the bodies the interleaved specification issues: the ones that pass validation
\* and change a rating
RatingBodies(comment) == {ReviewBody(1, comment, 0, 0), ReviewBody(5, comment, 0, 0)}

AuthorBodies(authors) == {ReviewBody(-1, FALSE, 0, a) : a \in authors}

\* the callers of the interleaved specification: the plain users write
\* reviews, the admin deletes the company
Plain == {i \in DOMAIN users : users[i].role = "user"}
Callers == {Jwt(i) : i \in Plain}
Admins == {Jwt(i) : i \in DOMAIN users \ Plain}

Accept ==
    \/ ReviewCreateAny(Callers, RatingBodies(TRUE))
    \/ ReviewUpdateAny(Callers, RatingBodies(FALSE) \cup AuthorBodies(Plain))
    \/ ReviewDeleteAny(Callers)
    \/ CompanyDeleteAny(Admins)

SeqAccept ==
    \/ GetReviewAny
    \/ ReviewCreateAny(Creds, ReviewCreateBodies)
    \/ ReviewUpdateAny(Creds, ReviewUpdateBodies)
    \/ ReviewDeleteAny(Creds)
    \/ CompanyCreateAny(Creds, ApiNames)
    \/ CompanyUpdateAny(Creds, ApiNames)
    \/ CompanyDeleteAny(Creds)

Progress ==
    \/ ReviewCreateStep
    \/ ReviewUpdateStep
    \/ ReviewDeleteStep
    \/ CompanyCascadeStep
    \/ CompanyRemoveStep
    \/ AggregateStep
    \/ UpdateStep

Next == Accept \/ Progress \/ SendResponse

Spec == Init /\ [][Next]_vars

SeqNext == (Quiescent /\ SeqAccept) \/ Progress \/ CompanyUpdateStep \/ SendResponse

SeqSpec == SeqInit /\ [][SeqNext]_vars

\* the store fails inside the rating recomputation, under either bootstrap
FaultInit ==
    /\ OneCompany
    /\ nameUnique = FALSE
    /\ bootstrap \in {"plain", "retrying"}

AggregateFails == \E t \in BagToSet(tasks) : GetAverageRatingAggregateFails(t)
UpdateFails == \E t \in BagToSet(tasks) : GetAverageRatingUpdateFails(t)

FaultNext ==
    \/ Quiescent /\ Accept
    \/ Progress
    \/ SendResponse
    \/ AggregateFails
    \/ UpdateFails

FaultSpec == FaultInit /\ [][FaultNext]_vars

ListInit ==
    /\ Seeded
    /\ nameUnique \in BOOLEAN
    /\ bootstrap = "plain"

ListNext ==
    \/ Quiescent /\ CompanyCreateAny(Creds, CompanyNames)
    \/ Quiescent /\ CompanyUpdateAny(Creds, CompanyNames)
    \/ Quiescent /\ CompanyDeleteAny(Creds)
    \/ Quiescent /\ ListCompaniesAny
    \/ CompanyUpdateStep
    \/ CompanyCascadeStep
    \/ CompanyRemoveStep
    \/ ListCompaniesStep
    \/ SendResponse

ListSpec == ListInit /\ [][ListNext]_vars

----------------------------------------------------------------------------
(* Startup (src/src/server.ts): the first bootstrap connects once and then *)
(* listens; the second listens and then connects with retries              *)

ApiFrame ==
    UNCHANGED <<users, givenPassword, companies, reviews, nextCompanyId,
                nextReviewId, nameUnique, inflight, tasks, bootstrap, up, imp>>

\* the module is being evaluated: nothing listens, no attempt was made
Booting(first) ==
    [pc |-> first, listening |-> FALSE, attempting |-> 0, timers |-> 0,
     elapsed |-> 0, connected |-> FALSE, attempts |-> 0, reachable |-> TRUE]

\* mongoose.connect is called: one more attempt in flight
BeginAttempt(b) ==
    [b EXCEPT !.attempting = b.attempting + 1,
              !.attempts = Min(b.attempts + 1, MaxAttempts)]

\* a retry that schedules nothing
ScheduleNoRetry(b) == b

\* setTimeout(startDB, 5000): one more timer, its delay starts to run
ScheduleRetry(b) == [b EXCEPT !.timers = b.timers + 1, !.elapsed = 0]

\* mongoose.connect(...) of the first bootstrap, before app.listen
PlainConnect ==
    /\ up /\ bootstrap = "plain" /\ boot.pc = "connect"
    /\ boot' = [BeginAttempt(boot) EXCEPT !.pc = "listen"]
    /\ UNCHANGED resp /\ ApiFrame

\* app.listen(PORT, ...)
BootListen ==
    /\ up /\ boot.pc = "listen"
    /\ boot' = [boot EXCEPT !.listening = TRUE,
                            !.pc = IF bootstrap = "retrying" THEN "startDB" ELSE "run"]
    /\ UNCHANGED resp /\ ApiFrame

\* startDB(), called at the end of the second bootstrap
StartDBFirst ==
    /\ up /\ bootstrap = "retrying" /\ boot.pc = "startDB"
    /\ boot' = [BeginAttempt(boot) EXCEPT !.pc = "run"]
    /\ UNCHANGED resp /\ ApiFrame

\* the awaited mongoose.connect settles: connectDB returns true or false, and
\* startDB schedules a retry after false; the first bootstrap only logs
ConnectSettles ==
    /\ up /\ boot.attempting > 0
    /\ LET b == [boot EXCEPT !.attempting = boot.attempting - 1]
       IN boot' = IF boot.reachable THEN [b EXCEPT !.connected = TRUE]
                  ELSE IF bootstrap = "retrying" THEN ScheduleRetry(b)
                  ELSE b
    /\ UNCHANGED resp /\ ApiFrame

\* a second of the retry delay passes
Tick ==
    /\ up /\ boot.timers > 0 /\ boot.elapsed < RetryDelay
    /\ boot' = [boot EXCEPT !.elapsed = boot.elapsed + 1]
    /\ UNCHANGED resp /\ ApiFrame

\* the timer fires: startDB runs again
TimerFires ==
    /\ up /\ boot.timers > 0 /\ boot.elapsed = RetryDelay
    /\ boot' = BeginAttempt([boot EXCEPT !.timers = boot.timers - 1])
    /\ UNCHANGED resp /\ ApiFrame

\* the store becomes reachable or unreachable
StoreChanges ==
    /\ boot' = [boot EXCEPT !.reachable = ~boot.reachable]
    /\ UNCHANGED resp /\ ApiFrame

\* GET /health: mongoose.connection.readyState === 1
Health ==
    /\ Serving /\ boot.listening
    /\ resp' = [Response("health", 200, FALSE) EXCEPT
                  !.data = IF boot.connected THEN <<"connected">>
                           ELSE <<"disconnected">>]
    /\ UNCHANGED boot /\ ApiFrame

BootInit ==
    /\ users = <<>>
    /\ givenPassword = <<>>
    /\ nameUnique = FALSE
    /\ companies = <<>>
    /\ reviews = <<>>
    /\ nextCompanyId = 1
    /\ nextReviewId = 1
    /\ inflight = EmptyBag
    /\ tasks = EmptyBag
    /\ resp = NoResponse
    /\ up = TRUE
    /\ imp = ImportIdle
    /\ bootstrap \in {"plain", "retrying"}
    /\ boot = Booting(IF bootstrap = "plain" THEN "connect" ELSE "listen")

BootNext ==
    \/ PlainConnect
    \/ BootListen
    \/ StartDBFirst
    \/ ConnectSettles
    \/ Tick
    \/ TimerFires
    \/ StoreChanges
    \/ Health
    \/ SendResponse

\* every step of the process is taken in the end: mongoose.connect settles
\* (server selection times out), timers run
BootSpec ==
    /\ BootInit /\ [][BootNext]_vars
    /\ WF_vars(PlainConnect) /\ WF_vars(BootListen) /\ WF_vars(StartDBFirst)
    /\ WF_vars(ConnectSettles) /\ WF_vars(Tick) /\ WF_vars(TimerFires)

----------------------------------------------------------------------------
(* Import utility (src/unnamed/part_000)                                   *)
(* imp.listing is what the external API serves: its pages, each with items *)
(* (company names) and meta.hasNextPage.  imp.asked records the pages      *)
(* fetched in the current run, imp.skipped the names whose save failed.    *)

ItemLists == {<<"n1">>, <<"n1", "n2">>, <<"n2", "n2">>}

ListingPages == [items : ItemLists, hasNextPage : BOOLEAN]

Listings == UNION {[1..n -> ListingPages] : n \in 1..MaxPages}

ImportFrame ==
    UNCHANGED <<users, givenPassword, reviews, nextReviewId, nameUnique, inflight,
                tasks, resp, bootstrap, up, boot>>

CompaniesNamed(name) == {c \in DOMAIN companies : companies[c].name = name}

\* an import that inserts every item it reads
InsertAlways(name) ==
    companies @@ (nextCompanyId :> [name |-> name, averageRating |-> NoAverage])

\* Company.findOneAndUpdate({name}, company, {upsert: true, new: true}): the
\* matching document is updated in place, a new one inserted when none matches
Upsert(name) ==
    IF CompaniesNamed(name) # {} THEN companies
    ELSE companies @@ (nextCompanyId :> [name |-> name, averageRating |-> NoAverage])

\* importCompanies() is called: the script is run
ImportStart ==
    /\ imp.pc \in {"idle", "done"} /\ imp.run < MaxRuns
    /\ imp' = [imp EXCEPT !.pc = "connect", !.run = imp.run + 1, !.asked = <<>>,
                          !.skipped = {}, !.ended = "", !.items = <<>>]
    /\ UNCHANGED <<companies, nextCompanyId>> /\ ImportFrame

\* await mongoose.connect(...); currentPage = 1, hasNextPage = true
ImportConnect ==
    /\ imp.pc = "connect"
    /\ imp' = [imp EXCEPT !.pc = "loop", !.open = TRUE, !.currentPage = 1,
                          !.hasNextPage = TRUE]
    /\ UNCHANGED <<companies, nextCompanyId>> /\ ImportFrame

\* mongoose.connect rejects: catch, then finally
ImportConnectFails ==
    /\ imp.pc = "connect"
    /\ imp' = [imp EXCEPT !.pc = "finally", !.ended = "error"]
    /\ UNCHANGED <<companies, nextCompanyId>> /\ ImportFrame

\* while (hasNextPage): fetchCompanies(currentPage); a page the API does not
\* have is answered with a status that makes fetchCompanies throw
ImportFetch ==
    /\ imp.pc = "loop" /\ imp.hasNextPage
    /\ imp' = IF imp.currentPage \in DOMAIN imp.listing
              THEN [imp EXCEPT !.pc = "save",
                               !.asked = Append(imp.asked, imp.currentPage),
                               !.items = imp.listing[imp.currentPage].items,
                               !.meta = imp.listing[imp.currentPage].hasNextPage]
              ELSE [imp EXCEPT !.pc = "finally", !.ended = "error",
                               !.asked = Append(imp.asked, imp.currentPage)]
    /\ UNCHANGED <<companies, nextCompanyId>> /\ ImportFrame

\* fetch rejects or the response is not ok: the outer catch, then finally
ImportFetchFails ==
    /\ imp.pc = "loop" /\ imp.hasNextPage
    /\ imp' = [imp EXCEPT !.pc = "finally", !.ended = "error",
                          !.asked = Append(imp.asked, imp.currentPage)]
    /\ UNCHANGED <<companies, nextCompanyId>> /\ ImportFrame

\* for (const company of companies): one findOneAndUpdate
ImportSave ==
    /\ imp.pc = "save" /\ imp.items # <<>>
    /\ companies' = Upsert(Head(imp.items))
    /\ nextCompanyId' = IF companies' = companies THEN nextCompanyId
                        ELSE nextCompanyId + 1
    /\ imp' = [imp EXCEPT !.items = Tail(imp.items)]
    /\ ImportFrame

\* findOneAndUpdate rejects: the inner catch logs, the loop goes on
ImportSaveFails ==
    /\ imp.pc = "save" /\ imp.items # <<>>
    /\ imp' = [imp EXCEPT !.items = Tail(imp.items),
                          !.skipped = imp.skipped \cup {Head(imp.items)}]
    /\ UNCHANGED <<companies, nextCompanyId>> /\ ImportFrame

\* hasNextPage = data.meta.hasNextPage; currentPage++
ImportPageDone ==
    /\ imp.pc = "save" /\ imp.items = <<>>
    /\ imp' = [imp EXCEPT !.pc = "loop", !.hasNextPage = imp.meta,
                          !.currentPage = imp.currentPage + 1]
    /\ UNCHANGED <<companies, nextCompanyId>> /\ ImportFrame

\* the loop ends: "Import completed", then finally
ImportLoopEnds ==
    /\ imp.pc = "loop" /\ ~imp.hasNextPage
    /\ imp' = [imp EXCEPT !.pc = "finally", !.ended = "normal"]
    /\ UNCHANGED <<companies, nextCompanyId>> /\ ImportFrame

\* finally: await mongoose.connection.close()
ImportClose ==
    /\ imp.pc = "finally"
    /\ imp' = [imp EXCEPT !.pc = "done", !.open = FALSE]
    /\ UNCHANGED <<companies, nextCompanyId>> /\ ImportFrame

\* the store the script runs against: empty, or holding a company "n1"
ImportInit ==
    /\ users = <<>>
    /\ givenPassword = <<>>
    /\ nameUnique \in BOOLEAN
    /\ \/ companies = <<>> /\ nextCompanyId = 1
       \/ /\ companies = (1 :> [name |-> "n1", averageRating |-> NoAverage])
          /\ nextCompanyId = 2
    /\ reviews = <<>>
    /\ nextReviewId = 1
    /\ inflight = EmptyBag
    /\ tasks = EmptyBag
    /\ resp = NoResponse
    /\ up = TRUE
    /\ bootstrap = "plain"
    /\ boot = Booted
    /\ \E l \in Listings : imp = [ImportIdle EXCEPT !.listing = l]

ImportNext ==
    \/ ImportStart
    \/ ImportConnect
    \/ ImportConnectFails
    \/ ImportFetch
    \/ ImportFetchFails
    \/ ImportSave
    \/ ImportSaveFails
    \/ ImportPageDone
    \/ ImportLoopEnds
    \/ ImportClose

ImportSpec == ImportInit /\ [][ImportNext]_vars

----------------------------------------------------------------------------
(* Properties                                                              *)

\* the stored averageRating of company c is the mean of the ratings of the
\* reviews that reference it, absent when there is none
AverageIsMean(c) == companies[c].averageRating = Aggregate(c)

\* C1: when requests are issued one at a time and each is let run to
\* completion with the recomputation it triggered, every company's stored
\* averageRating equals the mean of its current reviews (absent when none).
C1_SequentialAverage ==
    Quiescent => \A c \in DOMAIN companies : AverageIsMean(c)

\* C2: no two reviews ever share the pair (companyId, authorId), and a create
\* for a pair that is already held is rejected and leaves the reviews as
\* they were.
C2_OneReviewPerAuthor ==
    [][/\ \A i, j \in DOMAIN reviews' :
             (reviews'[i].companyId = reviews'[j].companyId
              /\ reviews'[i].authorId = reviews'[j].authorId) => i = j
       /\ \A r \in Suspended :
             (ReviewCreateSave(r) /\ ReviewPairTaken(r.companyId, r.authorId, 0))
             => (resp'.status = 500 /\ reviews' = reviews)]_vars

\* a create was answered 500 although its body passes every validator: the
\* pair was held by a stored review
C2_DuplicateRejected ==
    /\ resp = Response("createReview", 500, TRUE)
    /\ Cardinality(DOMAIN reviews) >= 1

\* C3: when DELETE /api/companies/:id removes the company record, the reviews
\* that referenced the company have already been removed and none references
\* it afterwards; GET /api/reviews/:id for a review that is gone answers 404.
C3_CompanyDeleteCascades ==
    [][/\ \A r \in Suspended :
             CompanyDeleteRemove(r)
             => /\ ReviewsOf(r.id) = {}
                /\ r.id \in DOMAIN companies /\ r.id \notin DOMAIN companies'
                /\ \A i \in DOMAIN reviews' : reviews'[i].companyId # r.id
                /\ resp'.status = 200
       /\ \A id \in ReviewIdInputs :
             (GetReview(id) /\ id \notin DOMAIN reviews) => resp'.status = 404]_vars

\* a company delete succeeded whose cascade removed at least one review
C3_CascadeRemovedReviews ==
    /\ resp.op = "deleteCompany" /\ resp.status = 200 /\ resp.n >= 1
    /\ \E id \in ReviewIdInputs : id < nextReviewId /\ id \notin DOMAIN reviews

\* the caller of a review mutation is signed in, but neither the author of the
\* review nor an admin
Stranger(cred, id) ==
    /\ Protect(cred) # 0
    /\ id \in DOMAIN reviews
    /\ reviews[id].authorId # Protect(cred)
    /\ users[Protect(cred)].role # "admin"

\* the caller is the author of the review or an admin
AuthorOrAdmin(cred, id) ==
    /\ Protect(cred) # 0
    /\ id \in DOMAIN reviews
    /\ (reviews[id].authorId = Protect(cred) \/ users[Protect(cred)].role = "admin")

\* C4: PUT or DELETE /api/reviews/:id by a signed-in caller who is neither
\* the author nor an admin answers 401 and leaves the store unchanged; the
\* request goes on to its mutation only for the author or an admin.
C4_ReviewOwnership ==
    [][\A cred \in Creds, id \in ReviewIdInputs :
          ~AuthorOrAdmin(cred, id)
          => /\ \A body \in ReviewUpdateBodies :
                   ReviewUpdateBegin(cred, id, body)
                   => /\ UNCHANGED <<reviews, companies, inflight, tasks>>
                      /\ Stranger(cred, id) => resp'.status = 401
             /\ ReviewDeleteBegin(cred, id)
                => /\ UNCHANGED <<reviews, companies, inflight, tasks>>
                   /\ Stranger(cred, id) => resp'.status = 401]_vars

\* a signed-in caller was refused on a review that exists and is not theirs
C4_StrangerRefused ==
    /\ resp.op \in {"updateReview", "deleteReview"}
    /\ resp.status = 401 /\ resp.authed
    /\ reviews # <<>>

\* the outcome the guard of the company routes owes a credential
OwedStatus(cred) ==
    IF Protect(cred) = 0 THEN 401
    ELSE IF users[Protect(cred)].role # "admin" THEN 403
    ELSE 0

\* C5: POST, PUT and DELETE on companies answer 401 without a valid token and
\* 403 to a signed-in caller whose role is not admin, and in both cases leave
\* the companies and the reviews unchanged and start no mutation.
C5_CompanyWritesAdminOnly ==
    [][\A cred \in Creds :
          OwedStatus(cred) # 0
          => /\ \A body \in CompanyBodies(ApiNames) :
                   CompanyCreate(cred, body)
                   => /\ resp'.status = OwedStatus(cred)
                      /\ UNCHANGED <<companies, reviews, inflight>>
             /\ \A id \in CompanyIdInputs :
                   /\ \A body \in CompanyBodies(ApiNames) :
                         CompanyUpdateBegin(cred, id, body)
                         => /\ resp'.status = OwedStatus(cred)
                            /\ UNCHANGED <<companies, reviews, inflight>>
                   /\ CompanyDeleteBegin(cred, id)
                      => /\ resp'.status = OwedStatus(cred)
                         /\ UNCHANGED <<companies, reviews, inflight>>]_vars

\* a signed-in caller without the admin role was answered 403 on a company
\* write while a company exists
C5_NonAdminForbidden ==
    /\ resp.op \in {"createCompany", "updateCompany", "deleteCompany"}
    /\ resp.status = 403 /\ resp.authed
    /\ companies # <<>>

\* the page or limit a request asks for, read as the claim reads it: the
\* parsed number, the default only when the parameter is absent or unparsable
Asked(raw, default) == IF ParseInt(raw) = <<>> THEN default ELSE ParseInt(raw)[1]

\* the same with the value 0 also replaced by the default
AskedNonZero(raw, default) ==
    IF ParseInt(raw) = <<>> \/ ParseInt(raw) = <<0>> THEN default ELSE ParseInt(raw)[1]

\* what a listing of page P, limit L over `total` companies has to answer
PageAnswer(answer, P, L, total) ==
    /\ answer.status = 200
    /\ answer.n <= L
    /\ answer.next <=> P * L < total
    /\ answer.prev <=> P > 1

\* C6 as stated, on the requests whose page and limit are not negative: with
\* P and L the requested page and limit (1 and 25 when absent or unparsable),
\* the response holds at most L records, a next link iff P * L < total and a
\* prev link iff P > 1.
C6_PaginationAsStated ==
    [][\A r \in Suspended :
          LET P == Asked(r.rawPage, DefaultPage)
              L == Asked(r.rawLimit, DefaultLimit)
          IN (ListCompaniesQuery(r) /\ P >= 0 /\ L >= 0)
             => PageAnswer(resp', P, L, Cardinality(DOMAIN companies))]_vars

\* C6, amended: with P and L the requested page and limit, 1 and 25 when the
\* parameter is absent, unparsable or 0, and P >= 1 and L >= 1, the response
\* holds at most L records, a next link iff P * L < total and a prev link
\* iff P > 1.
C6_Pagination ==
    [][\A r \in Suspended :
          LET P == AskedNonZero(r.rawPage, DefaultPage)
              L == AskedNonZero(r.rawLimit, DefaultLimit)
          IN (ListCompaniesQuery(r) /\ P >= 1 /\ L >= 1)
             => PageAnswer(resp', P, L, Cardinality(DOMAIN companies))]_vars

\* page 1 of limit 1 was served with one record and a next link, and page 2
\* with a prev link
C6_PageWithNext ==
    /\ resp.op = "listCompanies" /\ resp.status = 200
    /\ resp.limit = <<"1">> /\ resp.page = <<"1">>
    /\ resp.n = 1 /\ resp.next /\ ~resp.prev
    /\ Cardinality(DOMAIN companies) = 2

\* the token a response to user `id` has to carry
TokenOf(id) == [id |-> id, role |-> users[id].role]

\* C7 as stated: a login with a registered email and the password given at
\* registration answers 200 with a token for that user's id and role; with
\* the same email and any other password it answers 401 without a token; a
\* login never changes the stored users.
C7_LoginAsStated ==
    [][\A email \in Emails, password \in Passwords :
          (Login(email, password) /\ EmailTaken(email))
          => LET id == FindUserByEmail(email)
             IN /\ IF password = givenPassword[id]
                   THEN resp'.status = 200 /\ resp'.token = TokenOf(id)
                   ELSE resp'.status = 401 /\ resp'.token = NoToken
                /\ users' = users]_vars

\* C7, amended: a login with a registered email and the password given at
\* registration answers 200 with a token for that user's id and role; with
\* the same email and any other non-empty password it answers 401, and with
\* an empty or missing password 400, in both cases without a token; a login
\* never changes the stored users.
C7_Login ==
    [][\A email \in Emails, password \in Passwords :
          (Login(email, password) /\ EmailTaken(email))
          => LET id == FindUserByEmail(email)
             IN /\ IF password = givenPassword[id]
                   THEN resp'.status = 200 /\ resp'.token = TokenOf(id)
                   ELSE /\ resp'.status = IF password = "" THEN 400 ELSE 401
                        /\ resp'.token = NoToken
                /\ users' = users]_vars

\* an admin registered next to another user has logged in and holds a token
\* for their own id and role
C7_AdminLoggedIn ==
    /\ resp.op = "login" /\ resp.status = 200
    /\ Len(users) = 2
    /\ resp.token.id = 2 /\ resp.token = TokenOf(2)
    /\ resp.token.role = "admin"

\* C8: under any interleaving of review requests, once no request is in
\* flight and every recomputation that was triggered has finished, each
\* company's stored averageRating equals the mean of the ratings of the
\* reviews that then reference it (absent when none).
C8_EventualAverage ==
    \A c \in DOMAIN companies :
        (inflight = EmptyBag /\ tasks = EmptyBag) => AverageIsMean(c)

\* C9: when DELETE /api/reviews/:id has removed the only review of a company
\* and the recomputation the delete triggered has finished, whichever of the
\* two ends last, the company's averageRating is absent.
C9_LastReviewDeleted ==
    [][/\ \A t \in BagToSet(tasks) :
             (/\ GetAverageRatingUpdate(t)
              /\ Quiescent'
              /\ t.companyId \in DOMAIN companies
              /\ ReviewsOf(t.companyId) = {})
             => companies'[t.companyId].averageRating = NoAverage
       /\ \A r \in Suspended :
             (/\ ReviewDeleteRemove(r)
              /\ Quiescent'
              /\ r.id \in DOMAIN reviews
              /\ reviews[r.id].companyId \in DOMAIN companies
              /\ ReviewsOf(reviews[r.id].companyId) = {r.id})
             => companies'[reviews[r.id].companyId].averageRating = NoAverage]_vars

\* C10: a store failure inside the recomputation, in the aggregate query or
\* in the company update, never fails the review operation that triggered it:
\* a review create or delete that still awaits its store call is served by a
\* running process, so it goes on to take effect and to answer its success
\* status.
C10_RecomputeFailureContained ==
    \A r \in Suspended : r.op \in {"createReview", "deleteReview"} => up

\* C11: whenever GET /api/companies with a filter answers with a next link,
\* the next page of the same filter, sort and limit holds at least one
\* record: a next link is never sent when no matching company lies beyond the
\* current page.
C11_NextPageNotEmpty ==
    [][\A r \in Suspended :
          (ListCompaniesQuery(r) /\ resp'.status = 200 /\ resp'.next)
          => Window(NewestFirst(Matches(r.name)), r.page * r.limit, r.limit) # <<>>]_vars

Retrying == bootstrap = "retrying"

\* C12: in the retrying bootstrap the server listens before the first
\* connection attempt and whatever its outcome; a failed attempt leaves exactly
\* one timer, and the next attempt starts when its 5 seconds have passed; at
\* most one attempt or timer is pending at any time; once an attempt has
\* succeeded none is pending any more; and when the store stays reachable from
\* some point on, the connection is established in the end.
C12_RetryingBootstrap ==
    /\ [][Retrying =>
            /\ boot'.attempts > 0 => boot'.listening
            /\ boot'.attempting + boot'.timers <= 1
            /\ (ConnectSettles /\ ~boot.reachable)
               => (boot'.timers = 1 /\ boot'.elapsed = 0 /\ boot'.attempting = 0)
            /\ boot'.attempting > boot.attempting
               => (boot.pc = "startDB" \/ (boot.timers = 1 /\ boot.elapsed = RetryDelay))
            /\ boot'.connected => (boot'.attempting = 0 /\ boot'.timers = 0)]_vars
    /\ <>[](boot.reachable) => <>(Retrying => boot.connected)

\* the retrying server listens and is connected after an attempt that failed
C12_ConnectedAfterRetry ==
    /\ Retrying /\ boot.listening /\ boot.connected
    /\ boot.attempts >= 2

\* the names on the pages the current run of the import has read
NamesRead ==
    {name \in {"n1", "n2"} :
        \E k \in DOMAIN imp.asked :
            /\ imp.asked[k] \in DOMAIN imp.listing
            /\ \E i \in DOMAIN imp.listing[imp.asked[k]].items :
                  imp.listing[imp.asked[k]].items[i] = name}

\* C13: the import asks for the pages 1, 2, 3, ... in order, every page it
\* asked for before the last had hasNextPage true, and a run that ends
\* normally ends on a page whose hasNextPage is false; a run that ends
\* normally has stored every name it read whose save did not fail, whatever
\* saves failed before; when a run is over, normally or by an error, the
\* connection is closed; and no name is ever held by two company records, so
\* that after a second run over the same listing each name saved has exactly
\* one record.
C13_Import ==
    /\ \A k \in DOMAIN imp.asked : imp.asked[k] = k
    /\ \A k \in DOMAIN imp.asked :
          k < Len(imp.asked) => (k \in DOMAIN imp.listing /\ imp.listing[k].hasNextPage)
    /\ imp.ended = "normal"
       => /\ imp.asked # <<>>
          /\ Len(imp.asked) \in DOMAIN imp.listing
          /\ ~imp.listing[Len(imp.asked)].hasNextPage
          /\ \A name \in NamesRead \ imp.skipped : Cardinality(CompaniesNamed(name)) = 1
    /\ imp.pc = "done" => (imp.ended \in {"normal", "error"} /\ ~imp.open)
    /\ \A name \in {"n1", "n2"} : Cardinality(CompaniesNamed(name)) <= 1

\* the second run over a two-page listing has ended normally although a save
\* failed in it; the connection is closed and each name has one record
C13_SecondRunDone ==
    /\ imp.run = 2 /\ imp.pc = "done" /\ imp.ended = "normal" /\ ~imp.open
    /\ imp.asked = <<1, 2>>
    /\ imp.skipped # {}
    /\ \A name \in {"n1", "n2"} : Cardinality(CompaniesNamed(name)) = 1

\* C14: under any interleaving of review creates, review updates and company
\* deletes, every stored review references a company that is stored: no
\* review survives the deletion of its company or is created after it.
C14_ReviewsReferenceCompanies ==
    \A i \in DOMAIN reviews : reviews[i].companyId \in DOMAIN companies

\* C15: a review create is stored with the caller's id as authorId whatever
\* the body carries, and no later step changes the authorId or the companyId
\* of a stored review.
C15_AuthorAndCompanyFixed ==
    [][/\ \A cred \in Creds, c \in CompanyIdInputs, body \in ReviewCreateBodies :
             ReviewCreateBegin(cred, c, body)
             => \A r \in BagToSet(inflight') \ BagToSet(inflight) :
                   r.authorId = Protect(cred) /\ r.companyId = c
       /\ \A i \in DOMAIN reviews \cap DOMAIN reviews' :
             /\ reviews'[i].authorId = reviews[i].authorId
             /\ reviews'[i].companyId = reviews[i].companyId]_vars

====
